---------------------------- MODULE Spec2Model ----------------------------
(***************************************************************************)
(* A model of the LUNA SerDes PHY gateware (luna/gateware/interface/       *)
(* serdes_phy): the receiver lock sequencer SerdesRXInit, the clock        *)
(* compensation stages TXSKPInserter and RXSKPRemover, RXWordAligner,      *)
(* RXErrorSubstitution, LFPSDetector and LFPSBurstGenerator.               *)
(*                                                                         *)
(* Every component is synchronous logic.  One action models one clock      *)
(* tick of a component: the registers take the values their sync           *)
(* statements assign, and the inputs of the next cycle are chosen.  The    *)
(* inputs of the current cycle are part of the state, so that every        *)
(* combinational output is a function of the state.  Each component has    *)
(* a variable of its own (a record of its registers and inputs) and a      *)
(* specification of its own, in which the other components stand still.    *)
(***************************************************************************)
EXTENDS Integers, Sequences, FiniteSets, TLC

VARIABLES
    rxinit,     \* SerdesRXInit: synchronizers, FSM state, WaitTimer, seen latch
    ins,        \* TXSKPInserter: counters, grant, the sink's offer, the source's ready
    rem,        \* RXSKPRemover: shift register, byte count, sink's offer, source's ready
    al,         \* RXWordAligner: buffer, recorded offset, sink's offer, source's ready
    es,         \* RXErrorSubstitution: the inputs of the cycle
    det,        \* LFPSDetector: FSM state, count, found, the idle input
    bg,         \* LFPSBurstGenerator: FSM state, counters, square wave, inputs
    gen,        \* LFPSTransceiver's transmitter: LFPSGenerator, its burst generator, inputs
    pipe        \* USB3PIPE's receive gating: the inputs of the cycle

vars == <<rxinit, ins, rem, al, es, det, bg, gen, pipe>>

Bit(b) == IF b THEN 1 ELSE 0

(***************************************************************************)
(* Symbols, words and the payload stream.                                  *)
(*                                                                         *)
(* A symbol is a byte with its control bit; a word is the sequence of its  *)
(* symbols, lane 0 first (lane i holds data[8i:8i+8] and ctrl[i]).         *)
(***************************************************************************)

\* common.py: the K symbol Kx.y has the byte value (y << 5) | x.
K(x, y) == y * 32 + x

SKP == [data |-> K(28, 1), ctrl |-> 1]
COM == [data |-> K(28, 5), ctrl |-> 1]

\* The symbol RXErrorSubstitution puts in place of a decode error: K28.4
\* with its control bit set.
SUB == [data |-> K(28, 4), ctrl |-> 1]

\* The reset value of a data/ctrl signal.
ZeroSym == [data |-> 0, ctrl |-> 0]

\* The stages compare a symbol with SKP or COM and otherwise only move it,
\* so the payload offered to them is one fixed stream of symbols that are
\* all different: a lost, repeated, reordered or altered symbol shows.  The
\* stream holds control and data symbols, and a data symbol with SKP's byte
\* value.  When, how framed and on which lanes the payload arrives is free.
PayloadBase == K(26, 1)

Payload(n) == [data |-> (PayloadBase + n) % 256, ctrl |-> n % 2]

\* The k-th 4-symbol word of the payload stream.
PayloadWord(k) == <<Payload(4 * k), Payload(4 * k + 1), Payload(4 * k + 2), Payload(4 * k + 3)>>

\* The payload symbols a up to b - 1, in order.
PayloadSeq(a, b) == [i \in 1..(b - a) |-> Payload(a + i - 1)]

\* Number of words the producer offers in a run.
MaxWords == 4

(***************************************************************************)
(* TXSKPInserter (serdes.py).                                              *)
(***************************************************************************)

\* Words accepted per queued SKP request.  The source queues one request
\* every 176 words (data_count == 175); the model uses a shorter interval.
SkpWords == 2

\* Replicate(SKP, 4) with ctrl 1111.
SkpWord == <<SKP, SKP, SKP, SKP>>

\* The SKP-insertion branch of the comb block is taken.
InsInserting(s) == s.skip_grant = 1 /\ s.skip_count # 0

\* What the source offers: the SKP word, or the sink's word passed through.
InsSource(s) ==
    IF InsInserting(s)
    THEN [valid |-> 1, word |-> SkpWord, first |-> 0, last |-> 0]
    ELSE [valid |-> s.sink_valid, word |-> PayloadWord(s.nin),
          first |-> s.sink_first, last |-> s.sink_last]

\* The sink connected to the source in both branches.
InsSinkReady_Through(s) == s.source_ready

\* sink.ready: left at 0 while inserting, the source's ready otherwise.
InsSinkReady(s) == IF InsInserting(s) THEN 0 ELSE s.source_ready

skip_dequeue(s) == IF InsInserting(s) THEN s.source_ready ELSE 0

\* sink.valid & sink.ready
InsAccept(s) == s.sink_valid = 1 /\ InsSinkReady(s) = 1

\* source.valid & source.ready
InsTransfer(s) == InsSource(s).valid = 1 /\ s.source_ready = 1

\* The counter advanced by every offered word, accepted or not.
InsNextDataCount_Offered(s) ==
    IF s.sink_valid = 1
    THEN IF s.data_count = SkpWords - 1 THEN 0 ELSE (s.data_count + 1) % 256
    ELSE s.data_count

\* "Queue one 2 SKP Ordered Set every 176 Data/Ctrl words"
InsNextDataCount(s) ==
    IF InsAccept(s)
    THEN IF s.data_count = SkpWords - 1 THEN 0 ELSE (s.data_count + 1) % 256
    ELSE s.data_count

InsNextSkipQueue(s) ==
    IF InsAccept(s) /\ s.data_count = SkpWords - 1 THEN 1 ELSE 0

InsNextSkipGrant_FirstWins(s) ==
    IF InsAccept(s)
    THEN IF s.sink_first = 1 THEN 0
         ELSE IF s.sink_last = 1 THEN 1
         ELSE s.skip_grant
    ELSE s.skip_grant

\* "SKP grant: SKP should not be inserted inside packets"
InsNextSkipGrant(s) ==
    IF InsAccept(s)
    THEN IF s.sink_last = 1 THEN 1
         ELSE IF s.sink_first = 1 THEN 0
         ELSE s.skip_grant
    ELSE s.skip_grant

\* The counter with the dequeue taking precedence over a queued request.
InsNextSkipCount_DequeueWins(s) ==
    IF skip_dequeue(s) = 1 THEN (s.skip_count - 1) % 65536
    ELSE IF s.skip_queue = 1 THEN (s.skip_count + 1) % 65536
    ELSE s.skip_count

\* "SKP counter" (16 bits)
InsNextSkipCount(s) ==
    IF s.skip_queue = 1 /\ skip_dequeue(s) = 0 THEN (s.skip_count + 1) % 65536
    ELSE IF s.skip_queue = 0 /\ skip_dequeue(s) = 1 THEN (s.skip_count - 1) % 65536
    ELSE s.skip_count

\* The registers after a tick.
InsNextRegs(s) ==
    [data_count |-> InsNextDataCount(s),
     skip_grant |-> InsNextSkipGrant(s),
     skip_queue |-> InsNextSkipQueue(s),
     skip_count |-> InsNextSkipCount(s)]

\* The producer at the sink follows the stream protocol with well-nested
\* framing: it offers the payload words in order, keeps an offer until it is
\* accepted, opens a packet (first) only when none is open and closes one
\* (last) only when one is open.  open: a packet is open after the words
\* accepted so far.
Framings(open) ==
    IF open THEN {<<0, 0>>, <<0, 1>>} ELSE {<<0, 0>>, <<1, 0>>, <<1, 1>>}

InsNextOpen(s) ==
    IF InsAccept(s)
    THEN IF s.sink_last = 1 THEN FALSE
         ELSE IF s.sink_first = 1 THEN TRUE ELSE s.open
    ELSE s.open

Offers(s) ==
    IF s.sink_valid = 1 /\ ~InsAccept(s)
    THEN {[valid |-> 1, first |-> s.sink_first, last |-> s.sink_last]}
    ELSE {[valid |-> 0, first |-> 0, last |-> 0]} \cup
         IF s.nin + Bit(InsAccept(s)) < MaxWords
         THEN {[valid |-> 1, first |-> f[1], last |-> f[2]] : f \in Framings(InsNextOpen(s))}
         ELSE {}

\* hist: the framing <<first, last>> of every word accepted so far.
\* A packet is open at the source: a word with first and without last has
\* been transferred there and the word with last has not.
InsNextSrcOpen(s) ==
    IF InsTransfer(s) /\ ~InsInserting(s)
    THEN IF InsSource(s).last = 1 THEN FALSE
         ELSE IF InsSource(s).first = 1 THEN TRUE ELSE s.src_open
    ELSE s.src_open

\* The whole record after a tick, given the next cycle's offer and ready.
\* queued: the requests queued so far (ticks with skip_queue set);
\* skp_out: the SKP words transferred at the source; src_hist: the other
\* words transferred at the source, each with its first and last.
InsStep(s, offer, ready) ==
    [data_count   |-> InsNextRegs(s).data_count,
     skip_grant   |-> InsNextRegs(s).skip_grant,
     skip_queue   |-> InsNextRegs(s).skip_queue,
     skip_count   |-> InsNextRegs(s).skip_count,
     sink_valid   |-> offer.valid,
     sink_first   |-> offer.first,
     sink_last    |-> offer.last,
     source_ready |-> ready,
     nin          |-> s.nin + Bit(InsAccept(s)),
     open         |-> InsNextOpen(s),
     src_open     |-> InsNextSrcOpen(s),
     hist         |-> IF InsAccept(s)
                      THEN Append(s.hist, <<s.sink_first, s.sink_last>>)
                      ELSE s.hist,
     queued       |-> s.queued + InsNextRegs(s).skip_queue,
     skp_out      |-> s.skp_out + Bit(InsTransfer(s) /\ InsInserting(s)),
     src_hist     |-> IF InsTransfer(s) /\ ~InsInserting(s)
                      THEN Append(s.src_hist, <<InsSource(s).word, InsSource(s).first,
                                                InsSource(s).last>>)
                      ELSE s.src_hist]

\* Registers at their reset values (skip_grant resets to 1), no word offered.
InsReset(offer, ready) ==
    [data_count |-> 0, skip_grant |-> 1, skip_queue |-> 0, skip_count |-> 0,
     sink_valid |-> offer.valid, sink_first |-> offer.first, sink_last |-> offer.last,
     source_ready |-> ready, nin |-> 0, open |-> FALSE, src_open |-> FALSE,
     hist |-> <<>>, queued |-> 0, skp_out |-> 0, src_hist |-> <<>>]

InsOff == InsReset([valid |-> 0, first |-> 0, last |-> 0], 0)

InsInitStates ==
    {InsReset(o, r) : o \in Offers(InsOff), r \in {0, 1}}

\* One tick of the inserter with a free consumer.
InsTick ==
    \E o \in Offers(ins), r \in {0, 1} : ins' = InsStep(ins, o, r)

(***************************************************************************)
(* RXSKPRemover (serdes.py).                                               *)
(***************************************************************************)

\* "Find SKP symbols": the lanes whose symbol is SKP.
RemSkp(word) == {i \in 1..4 : word[i].ctrl = 1 /\ word[i].data = SKP.data}

\* "Select valid Data/Ctrl fragments": the symbols of the other lanes,
\* packed from lane 0 up (frag_data, frag_ctrl); frag_bytes is their number.
RemFrag_AnySkpByte(word) == SelectSeq(word, LAMBDA x : x.data # SKP.data)

RemFrag(word) == SelectSeq(word, LAMBDA x : ~(x.ctrl = 1 /\ x.data = SKP.data))

frag_bytes(word) == Len(RemFrag(word))

\* sink.ready
RemSinkReady(s) == s.sr_bytes <= 7

\* source.valid
RemSourceValid(s) == s.sr_bytes >= 4

\* "Output Data/Ctrl when there is a full 32/4-bit word": bytes 8-i..8-i+3
\* of the register for sr_bytes = i in 4..7; no case drives the source for
\* another count, so it reads 0.  first and last are never driven.
RemSource(s) ==
    [valid |-> Bit(RemSourceValid(s)),
     word  |-> IF s.sr_bytes \in 4..7
               THEN SubSeq(s.sr, 9 - s.sr_bytes, 12 - s.sr_bytes)
               ELSE <<ZeroSym, ZeroSym, ZeroSym, ZeroSym>>,
     first |-> 0,
     last  |-> 0]

\* sink.valid & sink.ready, for the word offered at the sink
RemAccept(s, sink) == sink.valid = 1 /\ RemSinkReady(s)

\* source.valid & source.ready
RemTransfer(s) == RemSourceValid(s) /\ s.source_ready = 1

\* "Store Data/Ctrl in a 64/8-bit Shift Register": with i = frag_bytes the
\* register drops its i lowest bytes and takes the fragment's i bytes on top.
RemNextSr(s, sink) ==
    IF RemAccept(s, sink) /\ frag_bytes(sink.word) > 0
    THEN SubSeq(s.sr, frag_bytes(sink.word) + 1, 8) \o RemFrag(sink.word)
    ELSE s.sr

\* sr_bytes is 4 bits wide.
RemNextSrBytes(s, sink) ==
    IF RemAccept(s, sink)
    THEN IF RemTransfer(s)
         THEN (s.sr_bytes + frag_bytes(sink.word) - 4) % 16
         ELSE (s.sr_bytes + frag_bytes(sink.word)) % 16
    ELSE IF RemTransfer(s) THEN (s.sr_bytes - 4) % 16
    ELSE s.sr_bytes

\* A producer at the remover's sink: on each lane of the word it offers
\* either SKP or the next symbol of the payload stream; skp is the set of
\* lanes holding SKP, n the number of payload symbols delivered before.
LaneWord(n, skp) ==
    [i \in 1..4 |->
        IF i \in skp THEN SKP
        ELSE Payload(n + Cardinality({j \in 1..(i - 1) : j \notin skp}))]

RemOwnSink(s) == [valid |-> s.sink_valid, word |-> LaneWord(s.nin, s.sink_skp)]

\* Number of payload symbols the producer delivers in a run.
MaxSyms == 12

\* The offers of the next cycle: an offer not accepted is kept.
RemOffers(s) ==
    IF s.sink_valid = 1 /\ ~RemAccept(s, RemOwnSink(s))
    THEN {[valid |-> 1, skp |-> s.sink_skp]}
    ELSE {[valid |-> 0, skp |-> {}]} \cup
         {[valid |-> 1, skp |-> k] :
            k \in {x \in SUBSET (1..4) :
                     s.nin + Bit(s.sink_valid = 1) * frag_bytes(RemOwnSink(s).word)
                         + (4 - Cardinality(x)) <= MaxSyms}}

\* The whole record after a tick in which `sink` was offered, given the
\* next cycle's offer and ready.  nin, nout: payload symbols accepted at the
\* sink and symbols emitted at the source so far.
RemStep(s, sink, offer, ready) ==
    [sr           |-> RemNextSr(s, sink),
     sr_bytes     |-> RemNextSrBytes(s, sink),
     sink_valid   |-> offer.valid,
     sink_skp     |-> offer.skp,
     source_ready |-> ready,
     nin          |-> s.nin + (IF RemAccept(s, sink) THEN frag_bytes(sink.word) ELSE 0),
     nout         |-> s.nout + (IF RemTransfer(s) THEN 4 ELSE 0)]

RemReset(offer, ready) ==
    [sr |-> <<ZeroSym, ZeroSym, ZeroSym, ZeroSym, ZeroSym, ZeroSym, ZeroSym, ZeroSym>>,
     sr_bytes |-> 0, sink_valid |-> offer.valid, sink_skp |-> offer.skp,
     source_ready |-> ready, nin |-> 0, nout |-> 0]

NoOffer == [valid |-> 0, skp |-> {}]

RemOff == RemReset(NoOffer, 0)

RemInitStates ==
    {RemReset(o, r) : o \in RemOffers(RemOff), r \in {0, 1}}

\* The remover in front of a consumer that is always ready.
RemReadyInitStates == {RemReset(o, 1) : o \in RemOffers(RemOff)}

RemReadyTick ==
    \E o \in RemOffers(rem) : rem' = RemStep(rem, RemOwnSink(rem), o, 1)

\* One tick of the remover with a free producer and a free consumer.
RemTick ==
    \E o \in RemOffers(rem), r \in {0, 1} :
        rem' = RemStep(rem, RemOwnSink(rem), o, r)

(***************************************************************************)
(* TXSKPInserter feeding RXSKPRemover: the inserter's source is the        *)
(* remover's sink (valid and payload forward, ready backward).             *)
(***************************************************************************)

LinkSink(i) == [valid |-> InsSource(i).valid, word |-> InsSource(i).word]

LinkRemInitStates == {RemReset(NoOffer, r) : r \in {0, 1}}

LinkInsInitStates(r) == {InsReset(o, Bit(RemSinkReady(r))) : o \in Offers(InsOff)}

\* One tick of both stages; the remover's consumer is free.
LinkTick ==
    \E o \in Offers(ins), r \in {0, 1} :
        /\ rem' = RemStep(rem, LinkSink(ins), NoOffer, r)
        /\ ins' = InsStep(ins, o, Bit(RemSinkReady(rem')))

(***************************************************************************)
(* RXWordAligner (serdes.py) with its stream.Buffer.                       *)
(***************************************************************************)

\* The stream before the skew is a sequence of 4-symbol words of three
\* kinds: "TS" starts with the alignment marker COM and goes on with data,
\* "DATA" holds data only, "ERR" holds data with one SUB symbol.  The data
\* symbols are all different.  types[w + 1] is the kind of word w.
WordTypes == {"TS", "DATA", "ERR"}

DataSym(n) == [data |-> n + 1, ctrl |-> 0]

\* Symbol n of the stream before the skew; the line carries data before the
\* stream starts.
OrigSym(types, n) ==
    IF n < 0 THEN ZeroSym
    ELSE CASE types[n \div 4 + 1] = "TS"   -> IF n % 4 = 0 THEN COM ELSE DataSym(n)
           [] types[n \div 4 + 1] = "DATA" -> DataSym(n)
           [] types[n \div 4 + 1] = "ERR"  -> IF n % 4 = 1 THEN SUB ELSE DataSym(n)

OrigWord(types, w) ==
    <<OrigSym(types, 4 * w), OrigSym(types, 4 * w + 1),
      OrigSym(types, 4 * w + 2), OrigSym(types, 4 * w + 3)>>

\* Incoming word j of the stream skewed by k lanes: the marker of a "TS"
\* word arrives on lane k.
SkewedWord(types, k, j) ==
    <<OrigSym(types, 4 * j - k), OrigSym(types, 4 * j - k + 1),
      OrigSym(types, 4 * j - k + 2), OrigSym(types, 4 * j - k + 3)>>

\* Number of incoming words the producer offers in a run.
MaxAlWords == 4

AlSinkWord(s) == SkewedWord(s.types, s.skew, s.nin)

\* ctrl != 0
HasCtrl(word) == \E i \in 1..4 : word[i].ctrl = 1

\* buf.source.ready
AlBufSourceReady(s) == s.sink_valid = 1 /\ s.source_ready = 1

\* sink.ready, which is the Buffer's sink.ready: the Buffer takes a word
\* when it is empty or its word is being taken.
AlSinkReady(s) == s.buf_valid = 0 \/ AlBufSourceReady(s)

\* sink.valid & sink.ready
AlAccept(s) == s.sink_valid = 1 /\ AlSinkReady(s)

\* source.valid
AlSourceValid(s) == s.sink_valid = 1 /\ s.buf_valid = 1

\* "Alignment detection": the statements for lanes 3, 2, 1, 0 follow each
\* other, so the lowest lane holding COM wins; 0 when no lane holds it.
alignment(s) ==
    IF AlAccept(s) /\ \E i \in 1..4 : AlSinkWord(s)[i] = COM
    THEN CHOOSE i \in 0..3 :
            /\ AlSinkWord(s)[i + 1] = COM
            /\ \A j \in 0..(i - 1) : AlSinkWord(s)[j + 1] # COM
    ELSE 0

\* The recorded offset is written.
AlRecords(s) ==
    AlAccept(s) /\ s.enable = 1 /\ HasCtrl(AlSinkWord(s)) /\ ~HasCtrl(s.buf)

AlNextAlignmentD(s) == IF AlRecords(s) THEN alignment(s) ELSE s.alignment_d

\* "Data selection": 4 symbols of Cat(buf.source, sink) from alignment_d on.
AlSource(s) ==
    [valid |-> Bit(AlSourceValid(s)),
     word  |-> SubSeq(s.buf \o AlSinkWord(s), s.alignment_d + 1, s.alignment_d + 4)]

\* The producer keeps an offer until it is accepted.
AlOffers(s) ==
    IF s.sink_valid = 1 /\ ~AlAccept(s) THEN {1}
    ELSE IF s.nin + Bit(AlAccept(s)) < MaxAlWords THEN {0, 1} ELSE {0}

\* The whole record after a tick.  nin: incoming words accepted so far;
\* recorded: a word holding the marker has been accepted with enable
\* asserted and its lane recorded.
AlStep(s, valid, enable, ready, type) ==
    [buf          |-> IF AlAccept(s) THEN AlSinkWord(s) ELSE s.buf,
     buf_valid    |-> IF AlSinkReady(s) THEN s.sink_valid ELSE s.buf_valid,
     alignment_d  |-> AlNextAlignmentD(s),
     enable       |-> enable,
     sink_valid   |-> valid,
     source_ready |-> ready,
     skew         |-> s.skew,
     types        |-> IF AlAccept(s) THEN Append(s.types, type) ELSE s.types,
     nin          |-> s.nin + Bit(AlAccept(s)),
     recorded     |-> s.recorded \/
                      (AlRecords(s) /\ \E i \in 1..4 : AlSinkWord(s)[i] = COM)]

\* enable resets to 1; the Buffer is empty and its payload register 0.
AlReset(valid, ready, k, type) ==
    [buf |-> <<ZeroSym, ZeroSym, ZeroSym, ZeroSym>>, buf_valid |-> 0,
     alignment_d |-> 0, enable |-> 1, sink_valid |-> valid, source_ready |-> ready,
     skew |-> k, types |-> <<type>>, nin |-> 0, recorded |-> FALSE]

AlOff == AlReset(0, 0, 0, "DATA")

AlInitStates ==
    {AlReset(v, r, k, t) : v \in {0, 1}, r \in {0, 1}, k \in 0..3, t \in WordTypes}

\* One tick of the aligner.  The kind of the next word of the stream is
\* chosen when a word is accepted.
AlTick ==
    \E v \in AlOffers(al), e \in {0, 1}, r \in {0, 1},
       t \in IF AlAccept(al) THEN WordTypes ELSE {"DATA"} :
        al' = AlStep(al, v, e, r, t)

(***************************************************************************)
(* RXErrorSubstitution (serdes.py): combinational, two lanes.              *)
(***************************************************************************)

\* The override applied to the lanes not marked invalid.
EsLaneSwapped(sym, invalid) == IF invalid = 1 THEN sym ELSE SUB

\* One lane of the source: the sink's symbol, overridden when the lane's
\* decoder reports invalid.
EsLane(sym, invalid) == IF invalid = 1 THEN SUB ELSE sym

\* sink.connect(source), then the per-lane override.
EsSource(s) ==
    [valid |-> s.sink_valid,
     first |-> s.sink_first,
     last  |-> s.sink_last,
     word  |-> <<EsLane(s.sink[1], s.invalid[1]), EsLane(s.sink[2], s.invalid[2])>>]

\* sink.ready, driven by sink.connect(source).
EsSinkReady(s) == s.source_ready

\* The symbols offered on a lane: data and control symbols, among them the
\* substitute itself and a data byte with its value.
EsSymbols ==
    {[data |-> d, ctrl |-> c] : d \in {0, K(28, 4), K(28, 5)}, c \in {0, 1}}

EsInputs ==
    [sink_valid : {0, 1}, sink_first : {0, 1}, sink_last : {0, 1},
     sink : EsSymbols \X EsSymbols, invalid : {0, 1} \X {0, 1},
     source_ready : {0, 1}]

EsOff ==
    [sink_valid |-> 0, sink_first |-> 0, sink_last |-> 0,
     sink |-> <<ZeroSym, ZeroSym>>, invalid |-> <<0, 0>>, source_ready |-> 0]

\* One tick: the stage keeps no state, the next cycle brings new inputs.
EsTick == \E in \in EsInputs : es' = in

(***************************************************************************)
(* LFPSDetector (lfps.py) behind the synchronizer of its idle input.       *)
(***************************************************************************)

\* A synchronizer with one flip-flop.
FFSynchronizer_OneStage(s) == [ff0 |-> s.raw, ff1 |-> s.raw]

\* FFSynchronizer(i, o): two flip-flops in the consuming domain.  The
\* first samples the raw input, the second the first; the logic reads the
\* second.
FFSynchronizer(s) == [ff0 |-> s.raw, ff1 |-> s.ff0]

\* synchronize(m, signal, o_domain): an in-domain copy of the signal, made
\* by a synchronizer of two stages.
synchronize(s) == FFSynchronizer(s)

\* Ticks per microsecond (sys_clk_freq * 1e-6).  The source runs at 125 or
\* more; the model runs a slower clock against the same template.
TicksPerUs == 2

\* _PollingLFPSBurst.t_typ and _PollingLFPSRepeat.t_typ, in microseconds.
PollingBurstTypUs == 1
PollingRepeatTypUs == 10

\* _ns_to_cycles of the typical durations.
burst_cycles == PollingBurstTypUs * TicksPerUs
repeat_cycles == PollingRepeatTypUs * TicksPerUs

RECURSIVE BitsFor(_)
BitsFor(n) == IF n < 2 THEN 1 ELSE 1 + BitsFor(n \div 2)

Pow2(n) == IF n = 0 THEN 1 ELSE 2 ^ n

\* count is Signal(range(0, needed_counter_max + 1)).
DetCountMod ==
    Pow2(BitsFor(IF burst_cycles > repeat_cycles THEN burst_cycles ELSE repeat_cycles))

\* detect: in TBURST, found set and idle low.
detect(s) == s.state = "TBURST" /\ s.found = 1 /\ s.idle = 0

\* found kept through the tick that asserts detect.
DetNextFound_Sticky(s) ==
    CASE s.state = "TBURST" -> s.found
      [] s.state = "TREPEAT" ->
            IF s.count = 0 \/ s.idle = 0 THEN Bit(s.count = 0) ELSE s.found

\* found set by every exit from TREPEAT.
DetNextFound_AnyExit(s) ==
    CASE s.state = "TBURST" -> IF detect(s) THEN 0 ELSE s.found
      [] s.state = "TREPEAT" ->
            IF s.count = 0 \/ s.idle = 0 THEN 1 ELSE s.found

\* found: cleared by the tick that asserts detect, set on leaving TREPEAT.
DetNextFound(s) ==
    CASE s.state = "TBURST" -> IF detect(s) THEN 0 ELSE s.found
      [] s.state = "TREPEAT" ->
            IF s.count = 0 \/ s.idle = 0 THEN Bit(s.count = 0) ELSE s.found

\* The count of a repeat interval taken for the whole period.
DetNextCount_WholePeriod(s) ==
    CASE s.state = "TBURST" ->
            IF s.count = 0
            THEN IF s.idle = 1 THEN repeat_cycles - 1
                 ELSE burst_cycles - 1
            ELSE (s.count - 1) % DetCountMod
      [] s.state = "TREPEAT" ->
            IF s.count = 0 \/ s.idle = 0 THEN burst_cycles - 1
            ELSE (s.count - 1) % DetCountMod

\* count: polls every burst_cycles ticks in TBURST, times the idle interval
\* in TREPEAT.
DetNextCount(s) ==
    CASE s.state = "TBURST" ->
            IF s.count = 0
            THEN IF s.idle = 1 THEN repeat_cycles - 2 * burst_cycles - 1
                 ELSE burst_cycles - 1
            ELSE (s.count - 1) % DetCountMod
      [] s.state = "TREPEAT" ->
            IF s.count = 0 \/ s.idle = 0 THEN burst_cycles - 1
            ELSE (s.count - 1) % DetCountMod

\* Idle acted on at every tick of the countdown.
DetNextState_IdleAnyTick(s) ==
    CASE s.state = "TBURST" ->
            IF s.idle = 1 THEN "TREPEAT" ELSE "TBURST"
      [] s.state = "TREPEAT" ->
            IF s.count = 0 \/ s.idle = 0 THEN "TBURST" ELSE "TREPEAT"

DetNextState(s) ==
    CASE s.state = "TBURST" ->
            IF s.count = 0 /\ s.idle = 1 THEN "TREPEAT" ELSE "TBURST"
      [] s.state = "TREPEAT" ->
            IF s.count = 0 \/ s.idle = 0 THEN "TBURST" ELSE "TREPEAT"

\* The idle input is either free, or follows the typical Polling template:
\* low for burst_cycles ticks, high for repeat_cycles - burst_cycles ticks.
\* ph is the position in the template's period, cyc the number of bursts
\* the template has started, seen whether detect was asserted on an earlier
\* tick of the current period.
TemplateIdle(ph) == Bit(ph >= burst_cycles)

\* Periods of the template fed in one go.
MaxCycles == 3

\* The environment's next position: a free input may go on or hand over to
\* the template at any phase; the template runs MaxCycles periods.
DetEnvNext(s) ==
    IF s.mode = "free"
    THEN {[mode |-> "free", idle |-> i, ph |-> 0, cyc |-> 0] : i \in {0, 1}} \cup
         {[mode |-> "template", idle |-> TemplateIdle(p), ph |-> p,
           cyc |-> Bit(p = 0)] : p \in 0..(repeat_cycles - 1)}
    ELSE IF s.ph < repeat_cycles - 1
         THEN {[mode |-> "template", idle |-> TemplateIdle(s.ph + 1), ph |-> s.ph + 1,
                cyc |-> s.cyc]}
         ELSE IF s.cyc < MaxCycles
              THEN {[mode |-> "template", idle |-> TemplateIdle(0), ph |-> 0,
                     cyc |-> s.cyc + 1]}
              ELSE {[mode |-> "free", idle |-> i, ph |-> 0, cyc |-> 0] : i \in {0, 1}}

\* What the synchronized idle has done, kept beside the registers and read
\* by no transition.  run: the ticks up to the last one on which idle was
\* asserted without a break, counted up to repeat_cycles - 2 * burst_cycles;
\* longrun: idle has been asserted for that many consecutive ticks since
\* the last tick with detect asserted, or since reset.
DetNextIdleRun(s) ==
    [run     |-> IF s.idle = 0 THEN 0
                 ELSE IF s.run < repeat_cycles - 2 * burst_cycles
                      THEN s.run + 1 ELSE s.run,
     longrun |-> IF detect(s) THEN FALSE
                 ELSE s.longrun \/
                      (s.idle = 1 /\ s.run + 1 >= repeat_cycles - 2 * burst_cycles)]

\* Reset value of a synchronizer stage: idle 0, no template position.
DetIdleReset == [mode |-> "free", idle |-> 0, ph |-> 0, cyc |-> 0]

\* One tick.  raw is the idle input with its position in the environment,
\* ff0 the synchronizer's first stage; idle, with mode, ph and cyc, is the
\* second stage, the in-domain copy the FSM reads.
DetStep(s, e) ==
    [state |-> DetNextState(s),
     count |-> DetNextCount(s),
     found |-> DetNextFound(s),
     raw   |-> e,
     ff0   |-> synchronize(s).ff0,
     idle  |-> synchronize(s).ff1.idle,
     mode  |-> synchronize(s).ff1.mode,
     ph    |-> synchronize(s).ff1.ph,
     cyc   |-> synchronize(s).ff1.cyc,
     seen  |-> IF synchronize(s).ff1.mode = "template" /\ synchronize(s).ff1.ph # 0
               THEN s.seen \/ detect(s) ELSE FALSE,
     run     |-> DetNextIdleRun(s).run,
     longrun |-> DetNextIdleRun(s).longrun]

\* The FSM starts in its first state, TBURST, with count and found 0; the
\* synchronizer's stages start at 0 and the raw input is i.
DetReset(i) ==
    [state |-> "TBURST", count |-> 0, found |-> 0,
     raw |-> [DetIdleReset EXCEPT !.idle = i], ff0 |-> DetIdleReset,
     idle |-> 0, mode |-> "free", ph |-> 0, cyc |-> 0, seen |-> FALSE,
     run |-> 0, longrun |-> FALSE]

DetOff == DetReset(0)

DetInitStates == {DetReset(i) : i \in {0, 1}}

DetTick == \E e \in DetEnvNext(det.raw) : det' = DetStep(det, e)

(***************************************************************************)
(* LFPSBurstGenerator (lfps.py).                                           *)
(***************************************************************************)

\* sys_clk_freq and lfps_clk_freq of the generator, in MHz.
SysClkMHz == 125
LfpsClkMHz == 30

\* ceil(sys_clk_freq / (2 * lfps_clk_freq)) - 1, for a tick rate given in MHz.
TimerMax(f) == (f + 2 * LfpsClkMHz - 1) \div (2 * LfpsClkMHz) - 1

timer_max == TimerMax(SysClkMHz)

\* The tick rates the generators are configured with, in MHz: the minimum
\* of USB3PIPE and rates above it.
TickRatesMHz == {SysClkMHz, SysClkMHz + 25, 2 * SysClkMHz}

\* Largest burst length requested.
MaxBurstLen == 3

\* Combinational outputs.
BgDone(s)      == s.state = "IDLE"
BgTxIdle(s)    == IF s.state = "BURST" THEN 0 ELSE 1
BgTxPattern(s) == IF s.state = "BURST" /\ s.square_wave = 1 THEN 1048575 ELSE 0

\* "LFPS square-wave generator"; IDLE overrides period_timer with 0.
BgNextSquareWave(s) == IF s.period_timer = 0 THEN 1 - s.square_wave ELSE s.square_wave

BgNextPeriodTimer(s) ==
    IF s.state = "IDLE" THEN 0
    ELSE IF s.period_timer = 0
         THEN (TimerMax(s.sys_clk) - 1) % Pow2(BitsFor(TimerMax(s.sys_clk)))
    ELSE s.period_timer - 1

\* cycles_left_in_burst is 32 bits wide, like length.  The decrement of 0
\* wraps to 2^32 - 1, written -1 here; IDLE, entered on the same tick,
\* overwrites it before anything reads it.
BgNextCyclesLeft(s) ==
    IF s.state = "IDLE" THEN s.length
    ELSE IF s.cycles_left = 0 THEN -1 ELSE s.cycles_left - 1

BgNextState(s) ==
    CASE s.state = "IDLE"  -> IF s.start = 1 THEN "BURST" ELSE "IDLE"
      [] s.state = "BURST" -> IF s.cycles_left = 0 THEN "IDLE" ELSE "BURST"

\* req_len: the length requested with the start pulse of the last burst;
\* burst_ticks: the ticks spent in that burst so far; bursts: bursts ended.
\* ones, zeros: the ticks of that burst with tx_pattern all ones, all zeros;
\* trans: the changes of tx_pattern seen on its ticks, prev the pattern of
\* the tick before (0 before the burst).
BgStep(s, start, length) ==
    [sys_clk      |-> s.sys_clk,
     state        |-> BgNextState(s),
     cycles_left  |-> BgNextCyclesLeft(s),
     square_wave  |-> BgNextSquareWave(s),
     period_timer |-> BgNextPeriodTimer(s),
     start        |-> start,
     length       |-> length,
     req_len      |-> IF s.state = "IDLE" /\ s.start = 1 THEN s.length ELSE s.req_len,
     burst_ticks  |-> IF s.state = "BURST" THEN s.burst_ticks + 1
                      ELSE IF s.start = 1 THEN 0 ELSE s.burst_ticks,
     bursts       |-> IF s.state = "BURST" /\ BgNextState(s) = "IDLE"
                      THEN 1 ELSE s.bursts,
     ones         |-> IF s.state = "BURST" THEN s.ones + Bit(BgTxPattern(s) # 0)
                      ELSE IF s.start = 1 THEN 0 ELSE s.ones,
     zeros        |-> IF s.state = "BURST" THEN s.zeros + Bit(BgTxPattern(s) = 0)
                      ELSE IF s.start = 1 THEN 0 ELSE s.zeros,
     trans        |-> IF s.state = "BURST" THEN s.trans + Bit(BgTxPattern(s) # s.prev)
                      ELSE IF s.start = 1 THEN 0 ELSE s.trans,
     prev         |-> IF s.state = "BURST" THEN BgTxPattern(s)
                      ELSE IF s.start = 1 THEN 0 ELSE s.prev]

\* The generator after reset, built for tick rate f.
BgResetAt(f, start, length) ==
    [sys_clk |-> f,
     state |-> "IDLE", cycles_left |-> 0, square_wave |-> 0, period_timer |-> 0,
     start |-> start, length |-> length, req_len |-> 0, burst_ticks |-> 0,
     bursts |-> 0, ones |-> 0, zeros |-> 0, trans |-> 0, prev |-> 0]

BgReset(start, length) == BgResetAt(SysClkMHz, start, length)

BgOff == BgReset(0, 0)

BgInitStates == {BgReset(st, l) : st \in {0, 1}, l \in 0..MaxBurstLen}

BgTick == \E st \in {0, 1}, l \in 0..MaxBurstLen : bg' = BgStep(bg, st, l)

\* LFPSGenerator.full_burst_length and full_repeat_length for tick rate f:
\* int(sys_clk_freq * t_typ) of the Polling burst and repeat.
full_burst_length(f) == f * PollingBurstTypUs
full_repeat_length(f) == f * PollingRepeatTypUs

\* The burst generator at each tick rate, asked for full bursts.
BgFullInitStates == {BgResetAt(f, st, full_burst_length(f)) : f \in TickRatesMHz, st \in {0, 1}}

BgFullTick == \E st \in {0, 1} : bg' = BgStep(bg, st, full_burst_length(bg.sys_clk))

(***************************************************************************)
(* LFPSGenerator and the transmitter of LFPSTransceiver (lfps.py).         *)
(***************************************************************************)

\* Cycles counted while generate is held.
MaxGenCycles == 3

\* polling_generator.generate: driven only while tx_polling is asserted.
generate(s) == s.tx_polling

\* LFPSGenerator's combinational outputs.
GenBusy(s) == s.state = "BURST_AND_WAIT"

GenTxIdle(s) ==
    IF s.state = "IDLE" THEN (IF generate(s) = 1 THEN 1 ELSE 0)
    ELSE BgTxIdle(s.burst_gen)

GenTxPattern(s) ==
    IF s.state = "IDLE" THEN 0 ELSE BgTxPattern(s.burst_gen)

\* LFPSTransceiver.tx_count
tx_count(s) == s.count

\* serdes.tx_idle and serdes.tx_pattern as the transceiver drives them.
SerdesTxIdle_Either(s) ==
    IF s.tx_polling = 1 THEN (IF GenTxIdle(s) = 1 /\ s.tx_idle = 1 THEN 1 ELSE 0)
    ELSE s.tx_idle

SerdesTxIdle(s) == IF s.tx_polling = 1 THEN GenTxIdle(s) ELSE s.tx_idle

SerdesTxPattern(s) == IF s.tx_polling = 1 THEN GenTxPattern(s) ELSE 0

\* The registers burst_generator.start and burst_generator.length.
GenNextStart(s) ==
    IF s.state = "IDLE" THEN (IF generate(s) = 1 THEN 1 ELSE s.burst_gen.start)
    ELSE 0

\* The burst asked to last the repeat interval.
GenNextLength_Repeat(s) ==
    IF s.state = "IDLE" /\ generate(s) = 1 THEN full_repeat_length(s.sys_clk)
    ELSE s.burst_gen.length

GenNextLength(s) ==
    IF s.state = "IDLE" /\ generate(s) = 1 THEN full_burst_length(s.sys_clk)
    ELSE s.burst_gen.length

\* burst_repeat_count is 32 bits wide; the decrement of 0 wraps to 2^32 - 1,
\* written -1 here, and is overwritten before the count is read again.
GenNextRepeatCount(s) ==
    IF s.state = "IDLE"
    THEN (IF generate(s) = 1 THEN full_repeat_length(s.sys_clk) ELSE s.burst_repeat_count)
    ELSE IF s.burst_repeat_count = 0 THEN -1 ELSE s.burst_repeat_count - 1

\* count: cleared on every IDLE tick, incremented when the repeat interval
\* has run out.
GenNextCount(s) ==
    IF s.state = "IDLE" THEN 0
    ELSE IF s.burst_repeat_count = 0 THEN (s.count + 1) % 65536 ELSE s.count

\* The cycle given up when the request is withdrawn.
GenNextState_Cancel(s) ==
    CASE s.state = "IDLE" -> IF generate(s) = 1 THEN "BURST_AND_WAIT" ELSE "IDLE"
      [] s.state = "BURST_AND_WAIT" ->
            IF s.burst_repeat_count = 0 \/ generate(s) = 0 THEN "IDLE" ELSE "BURST_AND_WAIT"

GenNextState(s) ==
    CASE s.state = "IDLE" -> IF generate(s) = 1 THEN "BURST_AND_WAIT" ELSE "IDLE"
      [] s.state = "BURST_AND_WAIT" ->
            IF s.burst_repeat_count = 0 THEN "IDLE" ELSE "BURST_AND_WAIT"

\* One tick.  busy_ticks and low_ticks measure the span with busy asserted
\* that is running or has ended last: its ticks, and those of them with the
\* generator's tx_idle low.  cycles counts the spans ended since generate
\* was last deasserted.
GenStep(s, polling, idle) ==
    [sys_clk            |-> s.sys_clk,
     state              |-> GenNextState(s),
     count              |-> GenNextCount(s),
     burst_repeat_count |-> GenNextRepeatCount(s),
     burst_gen          |-> BgStep(s.burst_gen, GenNextStart(s), GenNextLength(s)),
     tx_polling         |-> polling,
     tx_idle            |-> idle,
     busy_ticks         |-> IF GenBusy(s) THEN s.busy_ticks + 1
                            ELSE IF generate(s) = 1 THEN 0 ELSE s.busy_ticks,
     low_ticks          |-> IF GenBusy(s) THEN s.low_ticks + Bit(GenTxIdle(s) = 0)
                            ELSE IF generate(s) = 1 THEN 0 ELSE s.low_ticks,
     cycles             |-> IF generate(s) = 0 THEN 0
                            ELSE s.cycles + Bit(GenBusy(s) /\ GenNextState(s) = "IDLE")]

GenReset(f, polling, idle) ==
    [sys_clk |-> f, state |-> "IDLE", count |-> 0, burst_repeat_count |-> 0,
     burst_gen |-> BgResetAt(f, 0, 0), tx_polling |-> polling, tx_idle |-> idle,
     busy_ticks |-> 0, low_ticks |-> 0, cycles |-> 0]

GenOff == GenReset(SysClkMHz, 0, 0)

GenInitStates ==
    {GenReset(f, p, i) : f \in TickRatesMHz, p \in {0, 1}, i \in {0, 1}}

\* The polling request the next tick may bring: after MaxGenCycles cycles
\* in a row the request is dropped for a tick.
GenPollings(s) ==
    IF GenNextState(s) = "IDLE" /\ s.cycles + Bit(GenBusy(s)) >= MaxGenCycles
    THEN {0} ELSE {0, 1}

GenTick == \E p \in GenPollings(gen), i \in {0, 1} : gen' = GenStep(gen, p, i)

(***************************************************************************)
(* USB3PIPE's receive gating (core.py): combinational.                     *)
(***************************************************************************)

\* The signals an endpoint's connect() drives from source to sink.
StreamFields == {"valid", "first", "last", "data", "ctrl"}

\* connect(omit=...) leaves the named fields out, connect(keep=...) drives
\* only the named ones; ready runs the other way under the same rule.
Connected(omit, keep) == {f \in StreamFields \cup {"ready"} : f \notin omit /\ f \in keep}

\* The fields connected between serdes.source and descrambler.sink: the
\* handshake without data and ctrl while rx_ready, data and ctrl alone else.
PipeConnected(s) ==
    IF s.rx_ready = 1
    THEN Connected({"data", "ctrl"}, StreamFields \cup {"ready"})
    ELSE Connected({}, {"data", "ctrl"})

\* descrambler.sink: a connected field takes the source's value, any other
\* keeps its reset value 0.
DescSink(s) ==
    [f \in StreamFields |-> IF f \in PipeConnected(s) THEN s.source[f] ELSE 0]

\* serdes.source.ready
PipeSourceReady(s) == IF "ready" \in PipeConnected(s) THEN s.sink_ready ELSE 0

\* A word is transferred into the descrambler.
PipeTransfer(s) == DescSink(s).valid = 1 /\ s.sink_ready = 1

\* Values of serdes.source.data and of serdes.source.ctrl offered.
PipeData == {0, K(28, 5), K(26, 1)}
PipeCtrl == {0, 1}

PipeInputs ==
    [rx_ready : {0, 1}, sink_ready : {0, 1},
     source : [valid : {0, 1}, first : {0, 1}, last : {0, 1},
               data : PipeData, ctrl : PipeCtrl]]

PipeOff ==
    [rx_ready |-> 0, sink_ready |-> 0,
     source |-> [valid |-> 0, first |-> 0, last |-> 0, data |-> 0, ctrl |-> 0]]

\* One tick: the gating keeps no state, the next cycle brings new inputs.
PipeTick == \E in \in PipeInputs : pipe' = in

(***************************************************************************)
(* WaitTimer (compat.py) and SerdesRXInit (serdes.py).                     *)
(***************************************************************************)

\* The length t of WaitTimer(t).  The source uses int(4e5); the model
\* counts a shorter period of the same shape.
WaitTimerLen == 3

\* WaitTimer.done: the counter has reached zero.
timer_done(count) == count = 0

\* WaitTimer's counter after a tick with the given wait input.
WaitTimerNext(count, wait) ==
    IF wait
    THEN IF ~timer_done(count) THEN count - 1 ELSE count
    ELSE WaitTimerLen

StatusBits == [tx_lol : BOOLEAN, rx_lol : BOOLEAN, rx_los : BOOLEAN, rx_lsm : BOOLEAN]

\* Reset value of every FFSynchronizer stage.
StatusReset == [tx_lol |-> FALSE, rx_lol |-> FALSE, rx_los |-> FALSE, rx_lsm |-> FALSE]

\* The countdown of RESET-PCS gated on RX loss-of-lock only.
RXInitTimerWait_NoLos(s) ==
    CASE s.state = "RESET-PCS" ->
            IF timer_done(s.count) THEN FALSE ELSE ~s.ff1.rx_lol
      [] s.state = "CHECK-LSM" -> TRUE
      [] OTHER -> FALSE

\* timer.wait as driven by the FSM state s (0 when the state leaves it alone).
RXInitTimerWait(s) ==
    CASE s.state = "RESET-PCS" ->
            IF timer_done(s.count) THEN FALSE ELSE (~s.ff1.rx_lol /\ ~s.ff1.rx_los)
      [] s.state = "CHECK-LSM" -> TRUE
      [] OTHER -> FALSE

\* IDLE left without waiting for the TX lock.
IdleNextState_Always(s) == "RESET-ALL"

\* fsm.act("IDLE", ...)
IdleNextState(s) == IF ~s.ff1.tx_lol THEN "RESET-ALL" ELSE "IDLE"

\* fsm.act("RESET-ALL", ...)
ResetAllNextState(s) == "RESET-PCS"

\* fsm.act("RESET-PCS", ...)
ResetPcsNextState(s) == IF timer_done(s.count) THEN "CHECK-LSM" ELSE "RESET-PCS"

\* The indicator missing at timer expiry waited for instead of retried.
CheckLsmNextState_Waits(s) ==
    IF timer_done(s.count)
    THEN IF s.ff1.rx_lsm THEN "READY" ELSE "CHECK-LSM"
    ELSE IF s.seen /\ ~s.ff1.rx_lsm THEN "IDLE" ELSE "CHECK-LSM"

CheckLsmNextState_StaleLsm(s) ==
    IF timer_done(s.count)
    THEN IF s.seen THEN "READY" ELSE "IDLE"
    ELSE IF s.seen /\ ~s.ff1.rx_lsm THEN "IDLE" ELSE "CHECK-LSM"

\* CHECK-LSM without the bounce test.
CheckLsmNextState_NoBounce(s) ==
    IF timer_done(s.count)
    THEN IF s.ff1.rx_lsm THEN "READY" ELSE "IDLE"
    ELSE "CHECK-LSM"

\* fsm.act("CHECK-LSM", ...): the later If wins when both assign NextState.
CheckLsmNextState(s) ==
    IF timer_done(s.count)
    THEN IF s.ff1.rx_lsm THEN "READY" ELSE "IDLE"
    ELSE IF s.seen /\ ~s.ff1.rx_lsm THEN "IDLE" ELSE "CHECK-LSM"

ReadyNextState_NoLos(s) ==
    IF s.ff1.tx_lol \/ s.ff1.rx_lol THEN "IDLE" ELSE "READY"

\* fsm.act("READY", ...)
ReadyNextState(s) ==
    IF s.ff1.tx_lol \/ s.ff1.rx_lol \/ s.ff1.rx_los THEN "IDLE" ELSE "READY"

RXInitNextState(s) ==
    CASE s.state = "IDLE"      -> IdleNextState(s)
      [] s.state = "RESET-ALL" -> ResetAllNextState(s)
      [] s.state = "RESET-PCS" -> ResetPcsNextState(s)
      [] s.state = "CHECK-LSM" -> CheckLsmNextState(s)
      [] s.state = "READY"     -> ReadyNextState(s)

\* The _rx_lsm_seen latch: NextValue in RESET-PCS (on done) and in CHECK-LSM.
RXInitNextSeen(s) ==
    CASE s.state = "RESET-PCS" /\ timer_done(s.count) -> FALSE
      [] s.state = "CHECK-LSM" -> (s.seen \/ s.ff1.rx_lsm)
      [] OTHER -> s.seen

\* What has happened during the current stay in RESET-PCS or CHECK-LSM,
\* kept beside the registers and read by no transition.  pcs_good: the
\* ticks of the stay in RESET-PCS since the last one with RX loss-of-lock
\* or loss-of-signal; lsm_ticks: the ticks of the stay in CHECK-LSM; rose:
\* the indicator was asserted on one of them; fell: it was deasserted on a
\* later one.  All are cleared when the stay ends.
VisitReset == [pcs_good |-> 0, lsm_ticks |-> 0, rose |-> FALSE, fell |-> FALSE]

RXInitNextVisit(s) ==
    CASE s.state = "RESET-PCS" /\ RXInitNextState(s) = "RESET-PCS" ->
            [VisitReset EXCEPT !.pcs_good =
                IF ~s.ff1.rx_lol /\ ~s.ff1.rx_los THEN s.visit.pcs_good + 1 ELSE 0]
      [] s.state = "CHECK-LSM" /\ RXInitNextState(s) = "CHECK-LSM" ->
            [pcs_good  |-> 0,
             lsm_ticks |-> s.visit.lsm_ticks + 1,
             rose      |-> s.visit.rose \/ s.ff1.rx_lsm,
             fell      |-> s.visit.fell \/ (s.visit.rose /\ ~s.ff1.rx_lsm)]
      [] OTHER -> VisitReset

\* Combinational outputs.
rrst(s)        == s.state = "RESET-ALL"
lane_rx_rst(s) == s.state \in {"IDLE", "RESET-ALL", "RESET-PCS"}

\* State after construction: FSM in IDLE, timer at its reset value, all
\* synchronizer stages 0; the raw inputs of the first cycle are arbitrary.
\* clk is the parity of the tick count: it makes every clock tick a step
\* even when no register changes.
RXInitStates ==
    [raw : StatusBits, ff0 : {StatusReset}, ff1 : {StatusReset},
     state : {"IDLE"}, count : {WaitTimerLen}, seen : {FALSE},
     visit : {VisitReset}, clk : {0}]

\* One tick of the sync domain: the two FFSynchronizer stages shift, the
\* FSM, the timer and the latch take their next values.
RXInitTick ==
    \E in \in StatusBits :
        rxinit' = [raw   |-> in,
                   ff0   |-> FFSynchronizer(rxinit).ff0,
                   ff1   |-> FFSynchronizer(rxinit).ff1,
                   state |-> RXInitNextState(rxinit),
                   count |-> WaitTimerNext(rxinit.count, RXInitTimerWait(rxinit)),
                   seen  |-> RXInitNextSeen(rxinit),
                   visit |-> RXInitNextVisit(rxinit),
                   clk   |-> 1 - rxinit.clk]

\* The reset state with the raw inputs low: the sequencer's value in the
\* specifications of the other components, where it stands still.
RXInitOff ==
    [raw |-> StatusReset, ff0 |-> StatusReset, ff1 |-> StatusReset,
     state |-> "IDLE", count |-> WaitTimerLen, seen |-> FALSE,
     visit |-> VisitReset, clk |-> 0]

(***************************************************************************)
(* Specifications: one per component; the other components stand still.    *)
(***************************************************************************)

SpecRXInit ==
    /\ rxinit \in RXInitStates
    /\ ins = InsOff /\ rem = RemOff /\ al = AlOff /\ es = EsOff
    /\ det = DetOff /\ bg = BgOff /\ gen = GenOff /\ pipe = PipeOff
    /\ [][RXInitTick /\ UNCHANGED <<ins, rem, al, es, det, bg, gen, pipe>>]_vars

\* The clock never stops.
FairSpecRXInit ==
    SpecRXInit /\ WF_vars(RXInitTick /\ UNCHANGED <<ins, rem, al, es, det, bg, gen, pipe>>)

\* The sequencer and the detector behind their synchronizers: each runs
\* while the other is held in reset.
SpecSynchronizers ==
    /\ rxinit \in RXInitStates /\ det \in DetInitStates
    /\ ins = InsOff /\ rem = RemOff /\ al = AlOff /\ es = EsOff
    /\ bg = BgOff /\ gen = GenOff /\ pipe = PipeOff
    /\ [][\/ /\ det \in DetInitStates
             /\ RXInitTick /\ UNCHANGED <<ins, rem, al, es, det, bg, gen, pipe>>
          \/ /\ rxinit \in RXInitStates
             /\ DetTick /\ UNCHANGED <<rxinit, ins, rem, al, es, bg, gen, pipe>>]_vars

\* The pattern generator with its own burst generator, and a burst
\* generator whose start and length inputs are free: each runs while the
\* other is held in reset.
SpecLfpsCycle ==
    /\ \/ gen \in GenInitStates /\ bg = BgOff
       \/ gen = GenOff /\ bg \in BgInitStates
    /\ rxinit = RXInitOff /\ ins = InsOff /\ rem = RemOff /\ al = AlOff
    /\ es = EsOff /\ det = DetOff /\ pipe = PipeOff
    /\ [][\/ /\ bg = BgOff
             /\ GenTick /\ UNCHANGED <<rxinit, ins, rem, al, es, det, bg, pipe>>
          \/ /\ gen = GenOff
             /\ BgTick /\ UNCHANGED <<rxinit, ins, rem, al, es, det, gen, pipe>>]_vars

SpecInserter ==
    /\ ins \in InsInitStates
    /\ rxinit = RXInitOff /\ rem = RemOff /\ al = AlOff /\ es = EsOff
    /\ det = DetOff /\ bg = BgOff /\ gen = GenOff /\ pipe = PipeOff
    /\ [][InsTick /\ UNCHANGED <<rxinit, rem, al, es, det, bg, gen, pipe>>]_vars

SpecRemover ==
    /\ rem \in RemInitStates
    /\ rxinit = RXInitOff /\ ins = InsOff /\ al = AlOff /\ es = EsOff
    /\ det = DetOff /\ bg = BgOff /\ gen = GenOff /\ pipe = PipeOff
    /\ [][RemTick /\ UNCHANGED <<rxinit, ins, al, es, det, bg, gen, pipe>>]_vars

SpecRemoverReady ==
    /\ rem \in RemReadyInitStates
    /\ rxinit = RXInitOff /\ ins = InsOff /\ al = AlOff /\ es = EsOff
    /\ det = DetOff /\ bg = BgOff /\ gen = GenOff /\ pipe = PipeOff
    /\ [][RemReadyTick /\ UNCHANGED <<rxinit, ins, al, es, det, bg, gen, pipe>>]_vars

SpecRoundTrip ==
    /\ rem \in LinkRemInitStates
    /\ ins \in LinkInsInitStates(rem)
    /\ rxinit = RXInitOff /\ al = AlOff /\ es = EsOff /\ det = DetOff
    /\ bg = BgOff /\ gen = GenOff /\ pipe = PipeOff
    /\ [][LinkTick /\ UNCHANGED <<rxinit, al, es, det, bg, gen, pipe>>]_vars

SpecAligner ==
    /\ al \in AlInitStates
    /\ rxinit = RXInitOff /\ ins = InsOff /\ rem = RemOff /\ es = EsOff
    /\ det = DetOff /\ bg = BgOff /\ gen = GenOff /\ pipe = PipeOff
    /\ [][AlTick /\ UNCHANGED <<rxinit, ins, rem, es, det, bg, gen, pipe>>]_vars

SpecErrSub ==
    /\ es \in EsInputs
    /\ rxinit = RXInitOff /\ ins = InsOff /\ rem = RemOff /\ al = AlOff
    /\ det = DetOff /\ bg = BgOff /\ gen = GenOff /\ pipe = PipeOff
    /\ [][EsTick /\ UNCHANGED <<rxinit, ins, rem, al, det, bg, gen, pipe>>]_vars

SpecDetector ==
    /\ det \in DetInitStates
    /\ rxinit = RXInitOff /\ ins = InsOff /\ rem = RemOff /\ al = AlOff
    /\ es = EsOff /\ bg = BgOff /\ gen = GenOff /\ pipe = PipeOff
    /\ [][DetTick /\ UNCHANGED <<rxinit, ins, rem, al, es, bg, gen, pipe>>]_vars

SpecSquareWave ==
    /\ bg \in BgFullInitStates
    /\ rxinit = RXInitOff /\ ins = InsOff /\ rem = RemOff /\ al = AlOff
    /\ es = EsOff /\ det = DetOff /\ gen = GenOff /\ pipe = PipeOff
    /\ [][BgFullTick /\ UNCHANGED <<rxinit, ins, rem, al, es, det, gen, pipe>>]_vars

SpecBurstGen ==
    /\ bg \in BgInitStates
    /\ rxinit = RXInitOff /\ ins = InsOff /\ rem = RemOff /\ al = AlOff
    /\ es = EsOff /\ det = DetOff /\ gen = GenOff /\ pipe = PipeOff
    /\ [][BgTick /\ UNCHANGED <<rxinit, ins, rem, al, es, det, gen, pipe>>]_vars

SpecLfpsTx ==
    /\ gen \in GenInitStates
    /\ rxinit = RXInitOff /\ ins = InsOff /\ rem = RemOff /\ al = AlOff
    /\ es = EsOff /\ det = DetOff /\ bg = BgOff /\ pipe = PipeOff
    /\ [][GenTick /\ UNCHANGED <<rxinit, ins, rem, al, es, det, bg, pipe>>]_vars

SpecPipeRx ==
    /\ pipe \in PipeInputs
    /\ rxinit = RXInitOff /\ ins = InsOff /\ rem = RemOff /\ al = AlOff
    /\ es = EsOff /\ det = DetOff /\ bg = BgOff /\ gen = GenOff
    /\ [][PipeTick /\ UNCHANGED <<rxinit, ins, rem, al, es, det, bg, gen>>]_vars

(***************************************************************************)
(* C1, C2: the lock sequencer.                                             *)
(***************************************************************************)

\* The synchronized indicators read: TX locked, RX locked, signal present,
\* link state machine up.
GoodStatus(s) ==
    ~s.ff1.tx_lol /\ ~s.ff1.rx_lol /\ ~s.ff1.rx_los /\ s.ff1.rx_lsm

\* What a tick with good synchronized indicators does in each state.
C1_GoodStep ==
    GoodStatus(rxinit) =>
        CASE rxinit.state = "IDLE" -> rxinit'.state = "RESET-ALL"
          [] rxinit.state = "RESET-ALL" ->
                rxinit'.state = "RESET-PCS" /\ rxinit'.count = WaitTimerLen
          [] rxinit.state = "RESET-PCS" ->
                IF rxinit.count > 0
                THEN rxinit'.state = "RESET-PCS" /\ rxinit'.count = rxinit.count - 1
                ELSE rxinit'.state = "CHECK-LSM" /\ rxinit'.count = WaitTimerLen
          [] rxinit.state = "CHECK-LSM" ->
                IF rxinit.count > 0
                THEN rxinit'.state = "CHECK-LSM" /\ rxinit'.count = rxinit.count - 1
                ELSE rxinit'.state = "READY"
          [] rxinit.state = "READY" -> rxinit'.state = "READY"

\* C1: with the synchronized TX loss-of-lock, RX loss-of-lock and RX
\* loss-of-signal deasserted and the link-state-machine indicator asserted,
\* the sequencer steps Idle -> Reset-All -> Reset-PCS (a full timer period)
\* -> Check-LSM (a full timer period) -> Ready; if the indicators stay so
\* from some tick on, it eventually reaches Ready and stays there.
C1_ReachesReady ==
    /\ [][C1_GoodStep]_vars
    /\ (<>[]GoodStatus(rxinit)) => <>[](rxinit.state = "READY")

\* Ready reached by a full run of good ticks, the timer then released.
C1_Witness ==
    /\ rxinit.state = "READY"
    /\ GoodStatus(rxinit)
    /\ rxinit.seen
    /\ rxinit.count = WaitTimerLen

\* C2: in Ready, a tick on which synchronized TX loss-of-lock, RX
\* loss-of-lock or RX loss-of-signal is asserted is followed by Idle; a tick
\* on which none is asserted is followed by Ready.
C2_ReadyLeavesOnLoss ==
    [][rxinit.state = "READY" =>
         rxinit'.state =
            IF rxinit.ff1.tx_lol \/ rxinit.ff1.rx_lol \/ rxinit.ff1.rx_los
            THEN "IDLE" ELSE "READY"]_vars

\* Ready with only RX loss-of-signal asserted, and with the link state
\* machine indicator low (which alone does not leave Ready).
C2_Witness ==
    /\ rxinit.state = "READY"
    /\ rxinit.ff1.rx_los /\ ~rxinit.ff1.tx_lol /\ ~rxinit.ff1.rx_lol
    /\ ~rxinit.ff1.rx_lsm

(***************************************************************************)
(* C3: no SKP word inside a packet.                                        *)
(***************************************************************************)

\* The grant flag after a tick, as the claim states it.
C3_GrantStep ==
    ins'.skip_grant =
        IF InsAccept(ins) /\ ins.sink_last = 1 THEN 1
        ELSE IF InsAccept(ins) /\ ins.sink_first = 1 THEN 0
        ELSE ins.skip_grant

\* C3: the inserter's source never offers an SKP word while a packet is open
\* at the source (after the word carrying first, before the word carrying
\* last), whatever the consumer's readiness; an accepted word with last
\* sets the grant flag, an accepted word with first (and no last) clears
\* it, nothing else changes it.
C3_NoSkpInsidePacket ==
    /\ [](InsInserting(ins) => ~ins.src_open)
    /\ [][C3_GrantStep]_vars

\* A request is pending while a packet is open: the grant holds it back.
C3_Witness ==
    ins.src_open /\ ins.skip_count # 0 /\ ins.skip_grant = 0

(***************************************************************************)
(* C4, C5: what reaches the remover's source.                              *)
(***************************************************************************)

\* C4: the words at the remover's source are the words accepted at the
\* inserter's sink, in order, each with its data, ctrl, first and last.
C4_RoundTrip ==
    RemSourceValid(rem) =>
        /\ rem.nout % 4 = 0 /\ rem.nout \div 4 < Len(ins.hist)
        /\ RemSource(rem).word = PayloadWord(rem.nout \div 4)
        /\ RemSource(rem).first = ins.hist[rem.nout \div 4 + 1][1]
        /\ RemSource(rem).last = ins.hist[rem.nout \div 4 + 1][2]

\* C5: the remover holds exactly the accepted payload symbols it has not
\* emitted yet, in arrival order, and the word it offers is the four oldest.
C5_NoDataLoss ==
    /\ rem.sr_bytes = rem.nin - rem.nout
    /\ rem.sr_bytes <= 8
    /\ SubSeq(rem.sr, 9 - rem.sr_bytes, 8) = PayloadSeq(rem.nout, rem.nin)
    /\ RemSourceValid(rem) => RemSource(rem).word = PayloadSeq(rem.nout, rem.nout + 4)

(***************************************************************************)
(* C6: the aligner's output after the marker's lane has been recorded.     *)
(***************************************************************************)

\* C6: for every skew 0..3, once a word holding the marker has been accepted
\* with enable asserted and its lane recorded, every word at the source is
\* a word of the stream before the skew: the buffered word's symbols from
\* the marker's lane on, completed by the first symbols of the next word.
C6_AlignedAfterMarker ==
    (al.recorded /\ AlSourceValid(al)) =>
        AlSource(al).word = OrigWord(al.types, al.nin - 1)

(***************************************************************************)
(* C7: error substitution.                                                 *)
(***************************************************************************)

\* C7: for every combination of the two decode-invalid indicators, a lane
\* marked invalid carries K28.4 with its control bit set, a lane not marked
\* carries the sink's byte and control bit, whatever the other lane holds,
\* and valid, first, last and ready pass through unchanged.
C7_ErrorSubstitution ==
    /\ \A i \in 1..2 :
          /\ es.invalid[i] = 1 =>
                EsSource(es).word[i].ctrl = 1 /\ EsSource(es).word[i].data = 156
          /\ es.invalid[i] = 0 => EsSource(es).word[i] = es.sink[i]
    /\ EsSource(es).valid = es.sink_valid
    /\ EsSource(es).first = es.sink_first
    /\ EsSource(es).last = es.sink_last
    /\ EsSinkReady(es) = es.source_ready

\* A valid word with lane 0 invalid and lane 1 a good data symbol.
C7_Witness ==
    /\ es.sink_valid = 1 /\ es.invalid = <<1, 0>>
    /\ es.sink[1] = [data |-> 0, ctrl |-> 0]
    /\ es.sink[2] = [data |-> 188, ctrl |-> 0]
    /\ EsSource(es).word = <<[data |-> 156, ctrl |-> 1], [data |-> 188, ctrl |-> 0]>>

(***************************************************************************)
(* C8, C9: the LFPS detector.                                              *)
(***************************************************************************)

\* C8: while the idle input follows the typical Polling template, whatever
\* the detector's state and the phase at which the template set in, every
\* period after the first complete one (burst start to burst start) has a
\* tick with detect asserted.
C8_DetectEveryCycle ==
    (det.mode = "template" /\ det.cyc >= 2 /\ det.ph = repeat_cycles - 1) =>
        (det.seen \/ detect(det))

\* The end of the third period, detect having been asserted in it.
C8_Witness ==
    det.mode = "template" /\ det.cyc = 3 /\ det.ph = repeat_cycles - 1 /\ det.seen

\* C9: detect is never asserted on two consecutive ticks, for every idle
\* input sequence.
C9_DetectIsPulse == [][detect(det) => ~detect(det')]_vars

\* A tick with detect asserted.
C9_Witness == detect(det)

(***************************************************************************)
(* C10: the length of a burst.                                             *)
(***************************************************************************)

\* C10: during a burst tx_idle and done are low; once the burst started with
\* requested length L has ended, tx_idle was low for exactly L ticks,
\* tx_idle is high again, tx_pattern is 0 and done is reported.
C10_BurstLength ==
    /\ bg.state = "BURST" => (BgTxIdle(bg) = 0 /\ ~BgDone(bg))
    /\ (bg.state = "IDLE" /\ bg.bursts > 0) =>
          /\ bg.burst_ticks = bg.req_len
          /\ BgTxIdle(bg) = 1 /\ BgTxPattern(bg) = 0 /\ BgDone(bg)

(***************************************************************************)
(* C11: the square wave of a burst.                                        *)
(***************************************************************************)

\* C11: for every configured tick rate, once a full burst has ended, the
\* ticks with the pattern all ones and those with it all zeros are each
\* within 10 points of 50% of the burst's ticks, and the measured toggle
\* period, 2 * ticks / transitions, is within 10% of tick rate / LFPS
\* frequency.
C11_SquareWave ==
    (bg.state = "IDLE" /\ bg.bursts > 0) =>
        LET total == bg.ones + bg.zeros
            d1 == 10 * bg.ones - 5 * total
            d0 == 10 * bg.zeros - 5 * total
            dp == 2 * total * LfpsClkMHz - bg.sys_clk * bg.trans
        IN  /\ (IF d1 < 0 THEN -d1 ELSE d1) < total
            /\ (IF d0 < 0 THEN -d0 ELSE d0) < total
            /\ bg.trans > 0
            /\ 10 * (IF dp < 0 THEN -dp ELSE dp) < bg.sys_clk * bg.trans

(***************************************************************************)
(* C12, C13, C16: the LFPS transmitter.                                    *)
(***************************************************************************)

\* C12: every span with busy asserted that has ended lasted within 10% of
\* the typical repeat period, and held within 10% of the typical burst
\* duration of ticks with tx_idle low, at every configured tick rate.
C12_PollingTiming ==
    (gen.state = "IDLE" /\ gen.busy_ticks > 0) =>
        LET db == gen.low_ticks - full_burst_length(gen.sys_clk)
            dr == gen.busy_ticks - full_repeat_length(gen.sys_clk)
        IN  /\ 10 * (IF db < 0 THEN -db ELSE db) < full_burst_length(gen.sys_clk)
            /\ 10 * (IF dr < 0 THEN -dr ELSE dr) < full_repeat_length(gen.sys_clk)

\* The end of the second cycle in a row at the highest tick rate.
C12_Witness ==
    /\ gen.state = "IDLE" /\ gen.cycles = 2 /\ gen.sys_clk = 2 * SysClkMHz
    /\ gen.low_ticks = full_burst_length(gen.sys_clk) + 1
    /\ gen.busy_ticks = full_repeat_length(gen.sys_clk) + 1

\* C13: while tx_polling is asserted the serdes outputs are the pattern
\* generator's and the explicit idle request changes nothing; while it is
\* deasserted tx_idle is the explicit request and tx_pattern is 0.
C13_Arbitration ==
    /\ gen.tx_polling = 1 =>
          /\ SerdesTxIdle(gen) = GenTxIdle(gen)
          /\ SerdesTxPattern(gen) = GenTxPattern(gen)
          /\ SerdesTxIdle([gen EXCEPT !.tx_idle = 1 - @]) = SerdesTxIdle(gen)
          /\ SerdesTxPattern([gen EXCEPT !.tx_idle = 1 - @]) = SerdesTxPattern(gen)
    /\ gen.tx_polling = 0 =>
          /\ SerdesTxIdle(gen) = gen.tx_idle
          /\ SerdesTxPattern(gen) = 0

\* Polling with the burst running (pattern all ones) while the explicit
\* request asks for idle.
C13_Witness ==
    /\ gen.tx_polling = 1 /\ gen.tx_idle = 1
    /\ SerdesTxIdle(gen) = 0 /\ SerdesTxPattern(gen) = 1048575

\* C16: after the k-th burst+wait cycle in a row with generate held, the
\* count output (tx_count) is k modulo 2^16.
C16_CountsCycles ==
    (gen.state = "IDLE" /\ gen.cycles > 0) => tx_count(gen) = gen.cycles % 65536

(***************************************************************************)
(* C14: the receive gating of USB3PIPE.                                    *)
(***************************************************************************)

\* C14: while rx_ready is asserted the descrambler's sink shows the valid,
\* first and last the transceiver offers, and every word transferred into
\* it carries the data and ctrl the transceiver offers on that tick; while
\* rx_ready is deasserted no word is transferred into the descrambler.
C14_RxGating ==
    /\ pipe.rx_ready = 1 =>
          /\ DescSink(pipe).valid = pipe.source.valid
          /\ DescSink(pipe).first = pipe.source.first
          /\ DescSink(pipe).last = pipe.source.last
          /\ PipeSourceReady(pipe) = pipe.sink_ready
          /\ PipeTransfer(pipe) =>
                /\ DescSink(pipe).data = pipe.source.data
                /\ DescSink(pipe).ctrl = pipe.source.ctrl
    /\ pipe.rx_ready = 0 => ~PipeTransfer(pipe)

(***************************************************************************)
(* C15: the sequencer never fails terminally.                              *)
(***************************************************************************)

\* A transition taken because of a failure targets IDLE.
C15_FailStep ==
    /\ (rxinit.state = "CHECK-LSM" /\ ~rxinit.ff1.rx_lsm
          /\ (rxinit.seen \/ timer_done(rxinit.count))) => rxinit'.state = "IDLE"
    /\ (rxinit.state = "READY"
          /\ (rxinit.ff1.tx_lol \/ rxinit.ff1.rx_lol \/ rxinit.ff1.rx_los)) =>
            rxinit'.state = "IDLE"

\* Inputs that lead back to IDLE from wherever the sequencer is: TX lock
\* lost, RX lock and signal present, no link-state-machine indication.
C15_BackEnv ==
    /\ rxinit.ff1.tx_lol /\ ~rxinit.ff1.rx_lol /\ ~rxinit.ff1.rx_los /\ ~rxinit.ff1.rx_lsm

\* C15: every failure transition targets IDLE, and no reachable state is a
\* dead end: the inputs being free, from every state some input sequence
\* (the one above, held) brings the sequencer back to IDLE.
C15_NeverTerminal ==
    /\ [][C15_FailStep]_vars
    /\ (<>[]C15_BackEnv) => <>[](rxinit.state = "IDLE")

\* Back in IDLE after a failure in CHECK-LSM or READY: the latch set in
\* CHECK-LSM is still set.
C15_Witness == rxinit.state = "IDLE" /\ rxinit.seen /\ rxinit.ff1.rx_los

(***************************************************************************)
(* C17, C18: the remover's filter and its held-byte count.                 *)
(***************************************************************************)

\* C17: with the consumer always ready, the symbols emitted so far followed
\* by the symbols held are the symbols accepted so far without the control
\* symbols SKP, in arrival order, each with its own control bit (a data
\* byte of SKP's value is kept); the source offers them four at a time.
C17_FilteredStream ==
    /\ rem.source_ready = 1
    /\ rem.nout % 4 = 0 /\ rem.nout <= rem.nin
    /\ rem.nin - rem.nout = rem.sr_bytes /\ rem.sr_bytes <= 7
    /\ \A i \in 1..rem.sr_bytes :
          rem.sr[8 - rem.sr_bytes + i] = Payload(rem.nout + i - 1)
    /\ RemSourceValid(rem) =>
          \A i \in 1..4 : RemSource(rem).word[i] = Payload(rem.nout + i - 1)

\* The second word at the source, seven symbols held: the first word, with
\* the data byte of SKP's value, has been emitted and some accepted word
\* held SKP on some lanes only.
C17_Witness ==
    /\ RemSourceValid(rem) /\ rem.nout = 4 /\ rem.sr_bytes = 7
    /\ Payload(2) = [data |-> SKP.data, ctrl |-> 0]

\* C18: the held-byte count stays within 0..7 for every input stream and
\* every pattern of readiness, so a valid source has 4..7 bytes held and
\* offers the four oldest of them.
C18_HeldWithin7 ==
    /\ rem.sr_bytes \in 0..7
    /\ RemSourceValid(rem) =>
          /\ rem.sr_bytes \in 4..7
          /\ RemSource(rem).word = SubSeq(rem.sr, 9 - rem.sr_bytes, 12 - rem.sr_bytes)

(***************************************************************************)
(* C19, C20: the inserter's request counter and its insertion step.        *)
(***************************************************************************)

\* C19: after n words accepted at the sink, floor(n / interval) requests
\* have been queued and the word counter holds n modulo the interval,
\* whatever the stalls, the framing and the SKP words emitted in between;
\* a tick without an accepted word leaves the word counter alone.
C19_OneRequestPerInterval ==
    /\ [](ins.queued = ins.nin \div SkpWords /\ ins.data_count = ins.nin % SkpWords)
    /\ [][~InsAccept(ins) => ins'.data_count = ins.data_count]_vars

\* Two requests queued, the second still pending behind a stalled consumer.
C19_Witness ==
    ins.queued = 2 /\ ins.nin = 2 * SkpWords /\ ins.skip_count # 0 /\ ins.source_ready = 0

\* Pass-through resumes on the tick after the last pending request is
\* dequeued.
C20_ResumeStep ==
    (InsInserting(ins) /\ skip_dequeue(ins) = 1 /\ ins.skip_count = 1 /\ ins.skip_queue = 0)
        => (~InsInserting(ins') /\ InsSinkReady(ins') = ins'.source_ready)

\* C20: while the grant is set and a request is pending the source offers
\* four SKP symbols with their control bits set and the sink is not
\* accepted; the words transferred at the source, the inserted SKP words
\* left out, are the words accepted at the sink with their first and last;
\* pass-through resumes on the tick after the last request is dequeued.
C20_InsertionStep ==
    /\ [](InsInserting(ins) =>
            /\ InsSource(ins).valid = 1
            /\ \A i \in 1..4 : InsSource(ins).word[i] = [data |-> 60, ctrl |-> 1]
            /\ InsSinkReady(ins) = 0 /\ ~InsAccept(ins))
    /\ [](/\ Len(ins.src_hist) = ins.nin
          /\ \A i \in 1..Len(ins.src_hist) :
                ins.src_hist[i] = <<PayloadWord(i - 1), ins.hist[i][1], ins.hist[i][2]>>)
    /\ [][C20_ResumeStep]_vars

\* An SKP word has been transferred while a word was waiting at the sink,
\* and the words after it have passed.
C20_Witness ==
    ins.skp_out >= 1 /\ Len(ins.src_hist) > SkpWords /\ ins.src_hist[1][2] = 1

(***************************************************************************)
(* C21: when and to what the aligner's recorded offset changes.            *)
(***************************************************************************)

\* Lane i (0..3) of the word holds the alignment marker and no lower lane
\* does.
MarkerAt(word, i) ==
    /\ word[i + 1].ctrl = 1 /\ word[i + 1].data = COM.data
    /\ \A j \in 0..(i - 1) : ~(word[j + 1].ctrl = 1 /\ word[j + 1].data = COM.data)

\* C21: the recorded offset changes only on a tick where a word is accepted,
\* enable is asserted, the accepted word has a control bit set and the
\* buffered word has none, and its new value is then the lowest lane of the
\* accepted word that holds the marker; on every other tick it is unchanged.
C21_OffsetUpdate ==
    [][al'.alignment_d # al.alignment_d =>
          /\ al.sink_valid = 1 /\ AlSinkReady(al) /\ al.enable = 1
          /\ HasCtrl(AlSinkWord(al)) /\ ~HasCtrl(al.buf)
          /\ MarkerAt(AlSinkWord(al), al'.alignment_d)]_vars

(***************************************************************************)
(* C22: the stay in RESET-PCS.                                             *)
(***************************************************************************)

\* One tick spent in RESET-PCS, as the claim states it.
C22_ResetPcsStep ==
    rxinit.state = "RESET-PCS" =>
        /\ rxinit'.state \in {"RESET-PCS", "CHECK-LSM"}
        /\ rxinit'.state = "CHECK-LSM" =>
              /\ timer_done(rxinit.count)
              /\ rxinit.visit.pcs_good = WaitTimerLen
              /\ ~rxinit'.seen
              /\ rxinit'.count = WaitTimerLen
        /\ rxinit.visit.pcs_good = WaitTimerLen => rxinit'.state = "CHECK-LSM"
        /\ (rxinit.ff1.rx_lol \/ rxinit.ff1.rx_los) => rxinit'.count = WaitTimerLen

\* C22: RESET-PCS is left, for CHECK-LSM only, exactly when the wait timer
\* has completed, which is after a full timer length of consecutive ticks
\* with synchronized RX loss-of-lock and loss-of-signal both deasserted; a
\* tick with either asserted puts the countdown back to its full value;
\* lane_rx_rst is asserted in IDLE, RESET-ALL and RESET-PCS; on leaving, the
\* seen latch is cleared and the timer is at its full value.
C22_ResetPcs ==
    /\ [][C22_ResetPcsStep]_vars
    /\ [](rxinit.state \in {"IDLE", "RESET-ALL", "RESET-PCS"} => lane_rx_rst(rxinit))
    /\ [](rxinit.state = "RESET-PCS" =>
             rxinit.count = WaitTimerLen - rxinit.visit.pcs_good)

\* CHECK-LSM just entered for the second time, after a stay in RESET-PCS
\* whose countdown was restarted: the latch set in the first visit is
\* cleared and the timer is full.
C22_Witness ==
    /\ rxinit.state = "CHECK-LSM" /\ rxinit.visit.lsm_ticks = 0
    /\ ~rxinit.seen /\ rxinit.count = WaitTimerLen
    /\ rxinit.ff1.rx_los

(***************************************************************************)
(* C23: the stay in CHECK-LSM and the entry into READY.                    *)
(***************************************************************************)

\* One tick spent in CHECK-LSM, and one tick that enters READY.
C23_CheckLsmStep ==
    /\ rxinit.state = "CHECK-LSM" =>
          /\ (rxinit.visit.rose /\ ~rxinit.ff1.rx_lsm) => rxinit'.state = "IDLE"
          /\ timer_done(rxinit.count) =>
                rxinit'.state = IF rxinit.ff1.rx_lsm THEN "READY" ELSE "IDLE"
    /\ (rxinit.state # "READY" /\ rxinit'.state = "READY") =>
          /\ rxinit.state = "CHECK-LSM"
          /\ timer_done(rxinit.count) /\ rxinit.ff1.rx_lsm
          /\ rxinit.visit.lsm_ticks = WaitTimerLen

\* C23: in CHECK-LSM, the indicator deasserted after having been asserted
\* during the visit is followed by IDLE; the timer completing is followed by
\* READY if the indicator is asserted on that tick and by IDLE otherwise.
\* READY is entered by that transition only, after a full timer period
\* spent in CHECK-LSM, and no visit goes on after the indicator has fallen.
C23_CheckLsm ==
    /\ [][C23_CheckLsmStep]_vars
    /\ [](~rxinit.visit.fell)
    /\ [](rxinit.state = "CHECK-LSM" =>
            /\ rxinit.visit.rose = rxinit.seen
            /\ rxinit.visit.lsm_ticks = WaitTimerLen - rxinit.count)

\* READY just entered from CHECK-LSM: the timer is still at zero, the latch
\* is set and the indicator asserted.
C23_Witness ==
    /\ rxinit.state = "READY" /\ rxinit.count = 0
    /\ rxinit.seen /\ rxinit.ff1.rx_lsm

(***************************************************************************)
(* C24: the full lane reset pulse.                                         *)
(***************************************************************************)

\* RESET-ALL is entered from IDLE with TX lock only, and lasts one tick.
C24_ResetAllStep ==
    /\ rxinit'.state = "RESET-ALL" =>
          rxinit.state = "IDLE" /\ ~rxinit.ff1.tx_lol
    /\ rxinit.state = "RESET-ALL" => rxinit'.state = "RESET-PCS"
    /\ ~(rrst(rxinit) /\ rrst(rxinit'))

\* C24: rrst is asserted exactly on the ticks spent in RESET-ALL; RESET-ALL
\* is entered only from IDLE on a tick with synchronized TX loss-of-lock
\* deasserted, lasts one tick and is followed by RESET-PCS, so rrst is never
\* asserted on two consecutive ticks.
C24_ResetPulse ==
    /\ [](rrst(rxinit) <=> rxinit.state = "RESET-ALL")
    /\ [][C24_ResetAllStep]_vars

\* A second reset pulse, after a visit of CHECK-LSM that saw the indicator,
\* entered while TX loss-of-lock is asserted again.
C24_Witness ==
    /\ rrst(rxinit) /\ rxinit.seen /\ rxinit.ff1.tx_lol

(***************************************************************************)
(* C28: the loss indicators at the entry into READY.                       *)
(***************************************************************************)

\* C28: READY is entered only on a tick where synchronized TX loss-of-lock,
\* RX loss-of-lock and RX loss-of-signal are all deasserted.
C28_ReadyOnlyWithLock ==
    [][(rxinit.state # "READY" /\ rxinit'.state = "READY") =>
          (~rxinit.ff1.tx_lol /\ ~rxinit.ff1.rx_lol /\ ~rxinit.ff1.rx_los)]_vars

(***************************************************************************)
(* C25: the detector's countdown in TBURST.                                *)
(***************************************************************************)

\* C25 as stated: on any tick in TBURST with the synchronized idle asserted
\* the detector reloads count to repeat_cycles - 2 * burst_cycles - 1 and
\* moves to TREPEAT; with the counter at zero and idle deasserted it
\* reloads burst_cycles - 1 and stays.
C25_IdleOnAnyTick ==
    [][det.state = "TBURST" =>
          /\ det.idle = 1 =>
                /\ det'.state = "TREPEAT"
                /\ det'.count = repeat_cycles - 2 * burst_cycles - 1
          /\ (det.idle = 0 /\ det.count = 0) =>
                det'.state = "TBURST" /\ det'.count = burst_cycles - 1]_vars

\* C25 as the source has it: idle is looked at on the tick where count is
\* zero only.  On that tick, idle asserted reloads count to repeat_cycles -
\* 2 * burst_cycles - 1 and moves to TREPEAT, idle deasserted reloads
\* burst_cycles - 1 and stays in TBURST; on every other tick in TBURST the
\* count goes down by one and the state stays, whatever idle is.
C25_IdleAtZeroOnly ==
    [][det.state = "TBURST" =>
          IF det.count = 0
          THEN IF det.idle = 1
               THEN /\ det'.state = "TREPEAT"
                    /\ det'.count = repeat_cycles - 2 * burst_cycles - 1
               ELSE det'.state = "TBURST" /\ det'.count = burst_cycles - 1
          ELSE det'.state = "TBURST" /\ det'.count = det.count - 1]_vars

\* TBURST in the middle of its countdown with idle asserted.
C25_Witness ==
    det.state = "TBURST" /\ det.count > 0 /\ det.idle = 1

(***************************************************************************)
(* C26: the countdown counters at zero.                                    *)
(***************************************************************************)

\* C26: the detector's count, the burst generator's cycles-left counter,
\* the pattern generator's repeat countdown and the wait timer never go
\* below zero and never wrap to their maximum value (written -1 for the
\* 32-bit counters).
C26_NoUnderflow ==
    /\ det.count \in 0..(IF burst_cycles > repeat_cycles THEN burst_cycles ELSE repeat_cycles)
    /\ rxinit.count \in 0..WaitTimerLen
    /\ bg.cycles_left >= 0
    /\ gen.burst_gen.cycles_left >= 0
    /\ gen.burst_repeat_count >= 0

(***************************************************************************)
(* C27: the status bits reach the state machines through two flip-flops.   *)
(***************************************************************************)

\* The raw input and the first stage of the sequencer's synchronizers, with
\* one bit inverted.
RXInitFlipped(s) ==
    {[s EXCEPT !.raw[b] = ~s.raw[b]] : b \in DOMAIN s.raw} \cup
    {[s EXCEPT !.ff0[b] = ~s.ff0[b]] : b \in DOMAIN s.ff0}

\* The same for the detector's idle input.
DetFlipped(s) ==
    {[s EXCEPT !.raw.idle = 1 - s.raw.idle], [s EXCEPT !.ff0.idle = 1 - s.ff0.idle]}

\* The value the logic reads is the raw input of two ticks before, in the
\* block that the tick is of.
C27_TwoTickStep ==
    /\ rxinit' # rxinit => (rxinit'.ff0 = rxinit.raw /\ rxinit'.ff1 = rxinit.ff0)
    /\ det' # det => (det'.ff0.idle = det.raw.idle /\ det'.idle = det.ff0.idle)

\* What the state machines do next is the same whatever the raw inputs of
\* this tick and of the tick before are.
C27_RawIgnored ==
    /\ \A t \in RXInitFlipped(rxinit) :
          /\ RXInitNextState(t) = RXInitNextState(rxinit)
          /\ RXInitNextSeen(t) = RXInitNextSeen(rxinit)
          /\ RXInitTimerWait(t) = RXInitTimerWait(rxinit)
          /\ rrst(t) = rrst(rxinit) /\ lane_rx_rst(t) = lane_rx_rst(rxinit)
    /\ \A t \in DetFlipped(det) :
          /\ DetNextState(t) = DetNextState(det)
          /\ DetNextCount(t) = DetNextCount(det)
          /\ DetNextFound(t) = DetNextFound(det)
          /\ detect(t) = detect(det)

\* C27: on every tick the synchronized TX loss-of-lock, RX loss-of-lock, RX
\* loss-of-signal and link-state-machine indicator read by SerdesRXInit and
\* the idle value read by LFPSDetector are the raw inputs of two ticks
\* before, and no transition of either state machine depends on the raw
\* input of the current or of the previous tick.
C27_TwoStageSynchronized ==
    /\ [][C27_TwoTickStep]_vars
    /\ []C27_RawIgnored

\* READY held while a loss of signal is on its way through the
\* synchronizer: asserted at the raw input for two ticks and not yet in the
\* second stage.
C27_Witness ==
    /\ rxinit.state = "READY"
    /\ rxinit.raw.rx_los /\ rxinit.ff0.rx_los /\ ~rxinit.ff1.rx_los

(***************************************************************************)
(* C29: the offer at the inserter's source under backpressure.             *)
(***************************************************************************)

\* C29: whenever the source offers a word that the downstream does not take
\* on that tick, it offers the same word, with the same framing, on the next
\* tick; it never goes from a stalled data word to the SKP word, or back,
\* without a transfer.
C29_StableOffer ==
    [][(InsSource(ins).valid = 1 /\ ins.source_ready = 0) =>
          InsSource(ins') = InsSource(ins)]_vars

(***************************************************************************)
(* C30: the insertion requests are neither lost nor duplicated.            *)
(***************************************************************************)

\* The requests not yet emitted: those counted by skip_count and the one
\* whose pulse skip_queue the counter takes in on this tick.
C30_Pending == ins.skip_count + ins.skip_queue

\* A tick with the grant set, a request counted and the downstream ready
\* transfers one SKP word and takes one request off the count.
C30_EmitStep ==
    (ins.skip_grant = 1 /\ ins.skip_count # 0 /\ ins.source_ready = 1) =>
        /\ InsSource(ins).valid = 1 /\ InsSource(ins).word = SkpWord
        /\ ins'.skp_out = ins.skp_out + 1
        /\ ins'.skip_count = C30_Pending - 1
        /\ ins'.queued = ins.queued + ins'.skip_queue

\* C30: in every reachable state the SKP words transferred at the source
\* plus the pending requests are the requests queued so far, also when a
\* request is queued on the tick another is dequeued and when requests add
\* up during a packet; and every tick with the grant set, a request pending
\* in the count and the downstream ready emits one of them as one SKP word.
C30_RequestsConserved ==
    /\ [](ins.skp_out + C30_Pending = ins.queued)
    /\ [](ins.skip_count \in 0..ins.queued)
    /\ [][C30_EmitStep]_vars

\* A request is queued on the tick another is dequeued, after requests have
\* added up during a packet: the SKP word is being transferred while the
\* pulse of the second request is set.
C30_Witness ==
    /\ ins.skip_queue = 1 /\ InsInserting(ins) /\ ins.source_ready = 1
    /\ ins.queued = 2 /\ ins.skp_out = 0

(***************************************************************************)
(* C31: what a detect pulse needs.                                         *)
(***************************************************************************)

\* C31: detect is asserted only on a tick where the synchronized idle is
\* deasserted, and only if idle has been asserted for at least
\* repeat_cycles - 2 * burst_cycles consecutive ticks since the previous
\* tick with detect asserted, or since reset; a shorter idle period gives
\* no detect pulse.
C31_DetectNeedsLongIdle ==
    detect(det) => (det.idle = 0 /\ det.longrun)

\* A detect pulse on a free idle input, outside the Polling template.
C31_Witness ==
    detect(det) /\ det.mode = "free" /\ det.longrun

(***************************************************************************)
(* C32: a started burst and wait cycle runs to its end.                    *)
(***************************************************************************)

\* In BURST_AND_WAIT the generator is busy, and what it does next and what
\* it drives are the same whether generate is asserted or not.
C32_GenerateIgnored ==
    gen.state = "BURST_AND_WAIT" =>
        /\ GenBusy(gen)
        /\ \A p \in {0, 1} :
              LET t == [gen EXCEPT !.tx_polling = p]
              IN  /\ GenNextState(t) = GenNextState(gen)
                  /\ GenNextRepeatCount(t) = GenNextRepeatCount(gen)
                  /\ GenNextCount(t) = GenNextCount(gen)
                  /\ GenNextStart(t) = GenNextStart(gen)
                  /\ GenNextLength(t) = GenNextLength(gen)
                  /\ GenTxIdle(t) = GenTxIdle(gen)
                  /\ GenTxPattern(t) = GenTxPattern(gen)

\* In BURST the burst generator does the same whatever start and length
\* are.
C32_StartIgnored ==
    bg.state = "BURST" =>
        \A st \in {0, 1}, l \in 0..MaxBurstLen :
            LET t == [bg EXCEPT !.start = st, !.length = l]
            IN  /\ BgNextState(t) = BgNextState(bg)
                /\ BgNextCyclesLeft(t) = BgNextCyclesLeft(bg)
                /\ BgTxIdle(t) = BgTxIdle(bg)
                /\ BgTxPattern(t) = BgTxPattern(bg)

\* One tick of the pattern generator, and one of the burst generator.
C32_CycleStep ==
    /\ (gen' # gen /\ gen.state = "BURST_AND_WAIT") =>
          /\ gen'.state = IF gen.burst_repeat_count = 0 THEN "IDLE" ELSE "BURST_AND_WAIT"
          /\ gen.burst_repeat_count # 0 =>
                gen'.burst_repeat_count = gen.burst_repeat_count - 1
          /\ gen'.burst_gen.start = 0
          /\ gen'.burst_gen.length = gen.burst_gen.length
    /\ (gen' # gen /\ gen.state = "IDLE" /\ gen'.state = "BURST_AND_WAIT") =>
          generate(gen) = 1
    /\ (gen' # gen /\ gen.burst_gen.state = "IDLE" /\ gen'.burst_gen.state = "BURST") =>
          gen.state = "BURST_AND_WAIT" /\ gen.busy_ticks = 0
    /\ (bg' # bg /\ bg.state = "BURST") =>
          /\ bg'.state = IF bg.cycles_left = 0 THEN "IDLE" ELSE "BURST"
          /\ bg.cycles_left # 0 => bg'.cycles_left = bg.cycles_left - 1

=============================================================================
